---- MODULE Spec2Model ----
(***************************************************************************)
(* Model of dolfyn.io.nortek.NortekReader: the streaming decoder of the    *)
(* Nortek Vector / AWAC record-oriented binary format.                     *)
(*                                                                         *)
(* The file is a sequence of bytes.  The reader object is the record rdr;  *)
(* every method of NortekReader is an operator from a reader object to the *)
(* reader object it leaves behind, with the pending exception (if any) in  *)
(* the field err.  Python semantics are those of Python 3.                 *)
(***************************************************************************)
EXTENDS Integers, Sequences, FiniteSets, TLC

VARIABLES
    f,        \* the bytes of the file being decoded
    input,    \* the logical content the file was built from (never read by the reader)
    args,     \* the arguments of read_nortek: do_checksum, nens
    rdr,      \* the NortekReader object
    pc,       \* where the session is: "new", "open", "done", "raised"
    last,     \* what the most recent step of the session did (observation only)
    cls,      \* the class attribute NortekReader._lastread, shared by all readers
    rdr2,     \* the NortekReader object of a second session on the same file
    pc2,      \* where the second session is; "off" when there is none
    sci       \* the time column sci_vec_sysdata converts, before and after

vars == <<f, input, args, rdr, pc, last, cls, rdr2, pc2, sci>>

-----------------------------------------------------------------------------
(* Bounds of the model *)

MaxRecs == 2       \* data records after the header
MaxGarbage == 3    \* garbage bytes inserted before a record
MaxTrunc == 30     \* bytes cut off the end of a file

-----------------------------------------------------------------------------
(* Program constants *)

SyncByte == 165
CsSeed == 46476
W16 == 65536
NaN == 0 - 1000000
None == 0 - 1

Max(a, b) == IF a >= b THEN a ELSE b
Min(a, b) == IF a <= b THEN a ELSE b

-----------------------------------------------------------------------------
(* struct.unpack on a byte string b (1-based), field at 0-based offset o *)

unpackB(b, o) == b[o + 1]

unpackH(e, b, o) ==
    IF e = "<" THEN b[o + 1] + 256 * b[o + 2] ELSE 256 * b[o + 1] + b[o + 2]

unpackh(e, b, o) ==
    LET u == unpackH(e, b, o) IN IF u >= 32768 THEN u - W16 ELSE u

-----------------------------------------------------------------------------
(* Building a file *)

Zeros(n) == [i \in 1..n |-> 0]

PackH(e, v) ==
    IF e = "<" THEN <<v % 256, v \div 256>> ELSE <<v \div 256, v % 256>>

\* b with the bytes of w written at 0-based offset o
Put(b, o, w) ==
    [i \in 1..Len(b) |-> IF i > o /\ i <= o + Len(w) THEN w[i - o] ELSE b[i]]

\* sum of the 16-bit words of b at 0-based offsets lo, lo + 2, ... below hi
RECURSIVE SumWords(_, _, _, _)
SumWords(e, b, lo, hi) ==
    IF lo + 2 > hi THEN 0
    ELSE IF lo + 4 > hi THEN unpackH(e, b, lo)
    ELSE LET mid == lo + 2 * ((hi - lo) \div 4)
         IN SumWords(e, b, lo, mid) + SumWords(e, b, mid, hi)

\* the checksum word the instrument appends to a record
DeviceChecksum(e, b) == (CsSeed + SumWords(e, b, 0, Len(b))) % W16

\* a complete record: sync, id, payload, checksum word (cs = "bad": off by one)
Record(e, id, payload, cs) ==
    LET body == <<SyncByte, id>> \o payload
        good == DeviceChecksum(e, body)
    IN body \o PackH(e, IF cs = "ok" THEN good ELSE (good + 1) % W16)

-----------------------------------------------------------------------------
(* Record payloads as the instrument writes them.  v is a small value that  *)
(* tells the records of one file apart; every other byte is zero.           *)

\* the six BCD clock bytes: minute, second, day, hour, year, month
ClockBytes(v) == <<0, v, 1, 0, 18, 1>>

\* hardware configuration, 44 bytes: '2x14s6H12xI'
HwPayload(e, serial) ==
    Put(Put(Zeros(44), 0, PackH(e, 24)), 2, serial)

\* head configuration, 220 bytes: '2x3H12s176s22sH'
HeadPayload(e) ==
    Put(Put(Zeros(220), 0, PackH(e, 112)), 4, PackH(e, 6000))

\* user configuration, 508 bytes: AvgInterval, coordinate selector, NBins, NBurst
UserPayload(e, avg, coord, nbins, nburst) ==
    Put(Put(Put(Put(Put(Zeros(508), 0, PackH(e, 256)),
        14, PackH(e, avg)), 30, PackH(e, coord)), 32, PackH(e, nbins)),
        450, PackH(e, nburst))

\* velocity data, 20 bytes: '4B2H3h6B'
VelPayload(e, v) ==
    Put(Put(Put(Zeros(20), 1, <<v>>), 8, PackH(e, v)), 14, <<v>>)

\* system data, 24 bytes: size, clock, '2H3hH2BH'
SysPayload(e, v) ==
    Put(Put(Put(Put(Zeros(24), 0, PackH(e, 14)), 2, ClockBytes(v)),
        8, PackH(e, v)), 12, PackH(e, v))

\* data header, 38 bytes: size, clock, '8xH7B21x'
VecHdrPayload(e, v) ==
    Put(Put(Put(Zeros(38), 0, PackH(e, 21)), 2, ClockBytes(v)), 8, PackH(e, v))

\* check data, 6 + 3n bytes with n = 2 samples
ChkPayload(e, v) ==
    Put(Put(Put(Zeros(12), 0, PackH(e, 8)), 2, PackH(e, 2)), 6, <<v>>)

\* payload bytes after the 4-byte prefix of an auxiliary-inertial record
ImuLen(sub) == CASE sub = 195 -> 64 [] sub = 204 -> 78 [] OTHER -> 42

\* auxiliary inertial data: size, count, sub-type id, then 4-byte floats
ImuPayload(e, sub, v) ==
    Put(Put(Put(Zeros(4 + ImuLen(sub)), 0, PackH(e, (8 + ImuLen(sub)) \div 2)),
        3, <<sub>>), 4, <<v>>)

\* profile data, 116 + 9 nbins (+1) bytes: size, clock, '7HBB2H', spare, vel, amp
ProfLen(nbins) == 116 + 9 * nbins + (nbins % 2)

ProfPayload(e, nbins, v) ==
    Put(Put(Put(Zeros(ProfLen(nbins)), 0, PackH(e, (ProfLen(nbins) + 4) \div 2)),
        2, ClockBytes(v)), 12, PackH(e, v))

\* a record with a type code that is not in fun_map: size word and one data word
UnknownId == 153
UnkPayload(e, v) == Put(Put(Zeros(4), 0, PackH(e, 4)), 2, <<v>>)

IdOf(k) ==
    CASE k = "user" -> 0  [] k = "head" -> 4 [] k = "hw" -> 5 [] k = "chk" -> 7
      [] k = "vel" -> 16 [] k = "sys" -> 17 [] k = "vhdr" -> 18
      [] k = "prof" -> 32 [] k = "imu" -> 113 [] OTHER -> UnknownId

\* the bytes of the i-th data record r = [k, a, cs] of an input
\*   k  : record kind, "junk" for r.a garbage bytes, or "magic" for the four
\*        bytes of the words 1445, 24 the byte-order probe looks for
\*   a  : inertial sub-type of "imu"; number of bytes of "junk"; byte order
\*        of "magic" (0 little, 1 big); 1 for a "hw" record whose first word
\*        is 1445 written in the byte order of the file; for a "user" record
\*        other settings than those of the header: selector a - 1, a bins
\*   "imu99t" is an inertial record of the unknown sub-type 99 whose first
\*        data word makes the words from its count byte to its checksum word
\*        add up to minus the seed: a checksum scan begun at the count byte
\*        passes the record that follows and stops at the one after it
RenderRec(inp, r, v) ==
    LET e == inp.e IN
    CASE r.k = "junk" -> [i \in 1..r.a |-> inp.junk]
      [] r.k = "vel"  -> Record(e, 16, VelPayload(e, v), r.cs)
      [] r.k = "sys"  -> Record(e, 17, SysPayload(e, v), r.cs)
      [] r.k = "vhdr" -> Record(e, 18, VecHdrPayload(e, v), r.cs)
      [] r.k = "chk"  -> Record(e, 7, ChkPayload(e, v), r.cs)
      [] r.k = "imu"  -> Record(e, 113, ImuPayload(e, r.a, v), r.cs)
      [] r.k = "imu99t" ->
                LET q == ImuPayload(e, 99, 0)
                    sum == CsSeed + SumWords(e, <<SyncByte, 113>> \o q, 0, 2 + Len(q))
                                  + unpackH(e, q, 2)
                IN Record(e, 113,
                          Put(q, 4, PackH(e, ((W16 - (sum % W16)) % W16) \div 2)), r.cs)
      [] r.k = "prof" -> Record(e, 32, ProfPayload(e, inp.nbins, v), r.cs)
      [] r.k = "magic" -> PackH(IF r.a = 0 THEN "<" ELSE ">", 1445)
                            \o PackH(IF r.a = 0 THEN "<" ELSE ">", 24)
      [] r.k = "hw" /\ r.a = 1 ->
                PackH(e, 1445)
                    \o SubSeq(Record(e, 5, HwPayload(e, inp.serial), r.cs), 3, 48)
      [] r.k = "hw"   -> Record(e, 5, HwPayload(e, inp.serial), r.cs)
      [] r.k = "head" -> Record(e, 4, HeadPayload(e), r.cs)
      [] r.k = "user" /\ r.a # 0 -> Record(e, 0,
                UserPayload(e, inp.avg, r.a - 1, r.a, inp.nburst), r.cs)
      [] r.k = "user" -> Record(e, 0,
                UserPayload(e, inp.avg, inp.coord, inp.nbins, inp.nburst), r.cs)
      [] OTHER        -> Record(e, UnknownId, UnkPayload(e, v), r.cs)

RECURSIVE RenderRecs(_, _, _)
RenderRecs(inp, rs, i) ==
    IF i > Len(rs) THEN <<>>
    ELSE RenderRec(inp, rs[i], i) \o RenderRecs(inp, rs, i + 1)

\* the file: header records, data records, then inp.trunc bytes cut off
RenderFile(inp) ==
    LET all == RenderRecs(inp, inp.hdr, 1) \o RenderRecs(inp, inp.recs, 1)
    IN SubSeq(all, 1, Len(all) - Min(inp.trunc, Len(all)))

\* 0-based offset in the file of the i-th data record of inp
RecStart(inp, i) ==
    Len(RenderRecs(inp, inp.hdr, 1)) + Len(RenderRecs(inp, SubSeq(inp.recs, 1, i - 1), 1))

-----------------------------------------------------------------------------
(* The reader object and its file handle *)

Raise(s, e) == [s EXCEPT !.err = e]
Ok(s) == s.err = "none"

\* statement sequencing: F is the rest of the method, run on the value v, or
\* on the reader s unless an exception is pending in it
Let(v, F(_)) == F(v)
Try(s, F(_)) == IF Ok(s) THEN F(s) ELSE s

\* does the file hold nbyte more bytes at the current offset?
read_ok(s, nbyte) == s.pos + nbyte <= Len(f)

\* the bytes read(nbyte) returns when it does not raise
read_byts(s, nbyte) == SubSeq(f, s.pos + 1, s.pos + nbyte)

\* NortekReader.read: a short read consumes what is left and raises EOFError
read(s, nbyte) ==
    IF read_ok(s, nbyte) THEN [s EXCEPT !.pos = @ + nbyte]
    ELSE [s EXCEPT !.pos = Max(@, Len(f)), !.err = "EOFError"]

\* self.f.seek(d, 1)
seek_cur(s, d) == [s EXCEPT !.pos = @ + d]

filesize == Len(f)

\* len(byts) / 2 is true division in Python 3: the quotient is a float
TrueDivisionGivesFloat == TRUE

\* a checksum that verifies the trailing word whatever do_checksum says
\* a checksum step that leaves the trailing word of the record unread
checksum_no_skip(s, byts) ==
    IF s.do_checksum THEN Raise(s, "TypeError") ELSE s

checksum_always(s, byts) ==
    LET s1 == read(s, 2)
        cs == unpackH(s.endian, read_byts(s, 2), 0)
        all == s._thisid_bytes \o byts
    IN IF ~Ok(s1) THEN s1
       ELSE IF (SumWords(s.endian, all, 0, Len(all)) + CsSeed) % W16 # cs
            THEN Raise(s1, "CheckSumFailed")
            ELSE s1

\* NortekReader.checksum.  With do_checksum set, the unpack format is built
\* first: (1 + len(byts) / 2) * 'H' multiplies a str by a float and raises
\* TypeError before the words are summed and before the trailing word is
\* read, whatever the record holds.  (With an integer count the statement
\* would read the trailing word cs and raise when sum + 46476 - cs is zero.)
\* Without do_checksum the two bytes are skipped, not read.
checksum(s, byts) ==
    IF s.do_checksum
    THEN IF TrueDivisionGivesFloat THEN Raise(s, "TypeError")
         ELSE LET s1 == read(s, 2)
                  cs == unpackH(s.endian, read_byts(s, 2), 0)
                  all == s._thisid_bytes \o byts
              IN IF ~Ok(s1) THEN s1
                 ELSE IF SumWords(s.endian, all, 0, Len(all)) + CsSeed - cs = 0
                      THEN Raise(s1, "CheckSumFailed")
                      ELSE s1
    ELSE seek_cur(s, 2)

\* a scan that stops where it starts
findnext_here(s, do_cs) == [s EXCEPT !.ret = 0]

\* NortekReader.findnext: read 16-bit words until one whose first byte is the
\* sync byte (and, with do_cs, whose predecessor cs equals the running sum of
\* the seed and the words before cs); seek back to that word and return its
\* second byte.  The k-th word read (k = 0, 1, ...) sits at offset pos + 2k; a
\* short read raises EOFError.
findnext(s, do_cs) ==
    LET e == s.endian
        nwords == IF s.pos <= Len(f) THEN (Len(f) - s.pos) \div 2 ELSE 0
        val(k) == unpackH(e, f, s.pos + 2 * k)
        func(v) == IF e = "<" THEN v % 256 ELSE v \div 256
        func2(v) == IF e = "<" THEN v \div 256 ELSE v % 256
        cs(k) == IF k = 0 THEN 0 ELSE val(k - 1)
        sum(k) == (CsSeed + SumWords(e, f, s.pos, s.pos + 2 * (k - 1))) % W16
        stop(k) == func(val(k)) = SyncByte /\ (~do_cs \/ cs(k) = sum(k))
        stops == {k \in 0..(nwords - 1) : stop(k)}
    IN IF stops = {}
       THEN [s EXCEPT !.pos = Max(@, Len(f)), !.err = "EOFError"]
       ELSE LET k == CHOOSE k \in stops : \A j \in stops : k <= j
            IN [s EXCEPT !.pos = @ + 2 * k, !.ret = func2(val(k))]

\* NortekReader.read_id: the type code of the next record; on a sync-byte
\* mismatch, resynchronize with findnext(do_cs=False) and step over the pair
read_id(s) ==
    Let(read_byts(s, 2), LAMBDA bts :
    Try(read(s, 2), LAMBDA s1 :
        IF unpackB(bts, 0) # SyncByte
        THEN Try(findnext([s1 EXCEPT !._thisid_bytes = bts, !.n_resync = @ + 1], FALSE),
                 LAMBDA s3 : seek_cur(s3, 2))
        ELSE [s1 EXCEPT !._thisid_bytes = bts, !.ret = unpackB(bts, 1)]))

\* NortekReader.findnextid: step from record to record by the size word
\* until a record of type id has been passed.  A size word of zero on a
\* record of another type seeks back to where the iteration began: "Hang".
RECURSIVE findnextid(_, _)
findnextid(s, id) ==
    Try(read_id(s), LAMBDA s1 :
    Try(IF s1.ret = 16 THEN s1 ELSE read(s1, 2), LAMBDA s2 :
    Let(seek_cur(s2, IF s1.ret = 16 THEN 22
                     ELSE 2 * unpackH(s1.endian, read_byts(s1, 2), 0) - 4), LAMBDA s3 :
        IF s1.ret = id THEN s3
        ELSE IF s3.pos <= s.pos THEN Raise(s3, "Hang")
        ELSE findnextid(s3, id))))

iternum == 50

\* the for loop of code_spacing: s after the loop, with the last value of i in ret
RECURSIVE code_spacing_loop(_, _, _)
code_spacing_loop(s, searchcode, i) ==
    Let(findnextid(s, searchcode), LAMBDA s1 :
        IF s1.err = "EOFError" THEN [s1 EXCEPT !.err = "none", !.ret = i]
        ELSE IF ~Ok(s1) THEN s1
        ELSE IF i + 1 >= iternum THEN [s1 EXCEPT !.ret = i]
        ELSE code_spacing_loop(s1, searchcode, i + 1))

\* NortekReader.code_spacing: returns (pos - p0) / (i + 1) as the fraction
\* ret = <<pos - p0, i + 1>>
code_spacing(s, searchcode) ==
    Try(findnextid(s, searchcode), LAMBDA s0 :
    Try(code_spacing_loop(s0, searchcode, 0), LAMBDA s1 :
        [s1 EXCEPT !.ret = <<s1.pos - s0.pos, s1.ret + 1>>]))

-----------------------------------------------------------------------------
(* Python dicts: functions over a set of string keys *)

EmptyDict == [k \in {} |-> 0]
Upd(d, k, v) == [x \in DOMAIN d \cup {k} |-> IF x = k THEN v ELSE d[x]]
Pop(d, k) == [x \in DOMAIN d \ {k} |-> d[x]]
Has(d, k) == k \in DOMAIN d

\* bit n of val, as int2binarray stores it
int2binarray(val, n) == (val \div (2 ^ n)) % 2 = 1

-----------------------------------------------------------------------------
(* Configuration records *)

\* NortekReader.read_hw_cfg (0x05): '2x14s6H12xI'; the serial number and the
\* firmware version are decoded as UTF-8, which fails on a byte that is not
\* ASCII and begins no multi-byte character (every byte above 127 here)
read_hw_cfg(s) ==
    Let(read_byts(s, 44), LAMBDA byts :
    Try(read(s, 44), LAMBDA s1 :
        IF \E i \in (3..10) \cup (13..16) : byts[i] >= 128
        THEN Raise(s1, "UnicodeDecodeError")
        ELSE
        checksum([s1 EXCEPT !.config =
                    Upd(Upd(Upd(Upd(@,
                        "serialNum", SubSeq(byts, 3, 10)),
                        "freq", unpackH(s.endian, byts, 18)),
                        "recSize", unpackH(s.endian, byts, 24) * 65536),
                        "status", unpackH(s.endian, byts, 26))], byts)))

\* NortekReader.read_head_cfg (0x04): '2x3H12s176s22sH'
read_head_cfg(s) ==
    Let(read_byts(s, 220), LAMBDA byts :
    Try(read(s, 220), LAMBDA s1 :
        checksum([s1 EXCEPT !.config =
                    Upd(Upd(@,
                        "freq", unpackH(s.endian, byts, 4)),
                        "beam2inst_orientmat",
                        [i \in 1..3 |-> [j \in 1..3 |->
                            unpackh(s.endian, byts, 28 + 2 * (3 * (i - 1) + (j - 1)))]])],
                 byts)))

coord_names == <<"ENU", "XYZ", "BEAM">>

\* NortekReader.read_user_cfg (0x00); the coordinate selector indexes a
\* three-element list, the checksum comes after the fields are stored
read_user_cfg(s) ==
    LET e == s.endian IN
    Let(read_byts(s, 508), LAMBDA byts :
    Try(read(s, 508), LAMBDA s1 :
    Let([s1 EXCEPT !.config = Upd(Upd(@,
                        "AvgInterval", unpackH(e, byts, 14)),
                        "TimCtrlReg", unpackH(e, byts, 18))], LAMBDA s2 :
        IF unpackH(e, byts, 30) > 2 THEN Raise(s2, "IndexError")
        ELSE
    Let([s2 EXCEPT !.config = Upd(Upd(Upd(Upd(Upd(Upd(@,
                        "coord_sys_axes", coord_names[unpackH(e, byts, 30) + 1]),
                        "NBins", unpackH(e, byts, 32)),
                        "MeasInterval", unpackH(e, byts, 36)),
                        "Mode0", unpackH(e, byts, 56)),
                        "Comments", SubSeq(byts, 255, 256)),
                        "NBurst", unpackH(e, byts, 450))], LAMBDA s3 :
    Try(checksum(s3, byts), LAMBDA s4 :
        [s4 EXCEPT !.config = Upd(@, "vel_scale",
            IF int2binarray(s4.config["Mode0"], 4) THEN "0.1" ELSE "1")])))))

-----------------------------------------------------------------------------
(* The time-series buffer.  self.data is a dict of five dicts; a column is  *)
(* an ndarray, modelled by the sequence of its entries along the last axis. *)

Dict(d) == [t |-> "dict", v |-> d]
NdArray(a) == [t |-> "ndarray", v |-> a]

Groups == {"data_vars", "coords", "sys"}

HasCol(s, g, nm) == Has(s.data[g].v, nm)
Col(s, g, nm) == s.data[g].v[nm].v

\* VarAttrs._empty_array: a column of n unwritten entries (dim = 0: one value
\* per sample, dim > 0: dim values per sample)
_empty_array(n, dim) ==
    NdArray([i \in 1..n |-> IF dim = 0 THEN NaN ELSE [j \in 1..dim |-> NaN]])

\* the columns each record type owns: <<name, group, values per sample>>
vec_data ==
    << <<"AnaIn2LSB", "sys", 0>>, <<"Count", "sys", 0>>,
       <<"PressureMSB", "data_vars", 0>>, <<"AnaIn2MSB", "sys", 0>>,
       <<"PressureLSW", "data_vars", 0>>, <<"AnaIn1", "sys", 0>>,
       <<"vel", "data_vars", 3>>, <<"amp", "data_vars", 3>>,
       <<"corr", "data_vars", 3>> >>

vec_sysdata ==
    << <<"time", "coords", 0>>, <<"batt", "sys", 0>>,
       <<"c_sound", "data_vars", 0>>, <<"heading", "data_vars", 0>>,
       <<"pitch", "data_vars", 0>>, <<"roll", "data_vars", 0>>,
       <<"temp", "data_vars", 0>>, <<"error", "sys", 0>>,
       <<"status", "sys", 0>>, <<"AnaIn", "sys", 0>> >>

awac_profile(nbins) ==
    << <<"time", "coords", 0>>, <<"Error", "sys", 0>>, <<"AnaIn1", "sys", 0>>,
       <<"batt", "sys", 0>>, <<"c_sound", "data_vars", 0>>,
       <<"heading", "data_vars", 0>>, <<"pitch", "data_vars", 0>>,
       <<"roll", "data_vars", 0>>, <<"status", "sys", 0>>,
       <<"temp", "data_vars", 0>>, <<"pressure", "data_vars", 0>>,
       <<"vel", "data_vars", 3 * nbins>>, <<"amp", "data_vars", 3 * nbins>> >>

\* NortekReader._init_data: create the columns of vardict that are missing
RECURSIVE _init_data_from(_, _, _)
_init_data_from(s, vardict, i) ==
    IF i > Len(vardict) THEN s
    ELSE LET nm == vardict[i][1]
             g == vardict[i][2]
             s1 == IF HasCol(s, g, nm) THEN s
                   ELSE [s EXCEPT !.data[g].v =
                                      Upd(@, nm, _empty_array(s.n_samp_guess, vardict[i][3])),
                                  !.data["units"].v = Upd(@, nm, "unit")]
         IN _init_data_from(s1, vardict, i + 1)

_init_data(s, vardict) == _init_data_from(s, vardict, 1)

\* the assignments  dat[g][nm][..., c] = x  of one record, left to right: a
\* missing column raises KeyError, an index past the end raises IndexError
RECURSIVE Assign(_, _, _, _)
Assign(s, c, ws, i) ==
    IF i > Len(ws) THEN s
    ELSE LET g == ws[i][1]
             nm == ws[i][2]
         IN IF ~HasCol(s, g, nm) THEN Raise(s, "KeyError")
            ELSE IF c >= Len(Col(s, g, nm)) THEN Raise(s, "IndexError")
            ELSE Assign([s EXCEPT !.data[g].v[nm].v[c + 1] = ws[i][3]], c, ws, i + 1)

-----------------------------------------------------------------------------
(* Clock fields *)

_bcd2char(cBCD) ==
    LET b == Min(cBCD, 153) IN (b % 16) + 10 * (b \div 16)

_fullyear(year) ==
    IF year > 100 THEN year ELSE year + 1900 + (IF year < 90 THEN 100 ELSE 0)

IsLeap(y) == (y % 4 = 0 /\ y % 100 # 0) \/ y % 400 = 0

DaysInMonth(y, m) ==
    IF m = 2 THEN (IF IsLeap(y) THEN 29 ELSE 28)
    ELSE IF m \in {4, 6, 9, 11} THEN 30 ELSE 31

RECURSIVE DaysBeforeMonth(_, _)
DaysBeforeMonth(y, m) ==
    IF m <= 1 THEN 0 ELSE DaysInMonth(y, m - 1) + DaysBeforeMonth(y, m - 1)

\* days from 1970-01-01 to the first day of year y
DaysBeforeYear(y) ==
    365 * (y - 1970) + ((y - 1969) \div 4) - ((y - 1901) \div 100) + ((y - 1601) \div 400)

\* the fields datetime() receives from rd_time: minute, second, day, hour, year, month
ClockOf(strng) ==
    [year |-> _fullyear(_bcd2char(strng[5])), month |-> _bcd2char(strng[6]),
     day |-> _bcd2char(strng[3]), hour |-> _bcd2char(strng[4]),
     min |-> _bcd2char(strng[1]), sec |-> _bcd2char(strng[2])]

\* datetime() rejects fields out of range with ValueError
ClockValid(strng) ==
    LET t == ClockOf(strng) IN
    /\ t.month \in 1..12
    /\ t.day >= 1 /\ t.day <= DaysInMonth(t.year, t.month)
    /\ t.hour <= 23 /\ t.min <= 59 /\ t.sec <= 59

\* NortekReader.rd_time: seconds since the epoch (clock read as UTC)
rd_time(strng) ==
    LET t == ClockOf(strng) IN
    ((DaysBeforeYear(t.year) + DaysBeforeMonth(t.year, t.month) + t.day - 1) * 24
        + t.hour) * 3600 + t.min * 60 + t.sec

-----------------------------------------------------------------------------
(* Data records *)

\* a 4-byte float, kept as the 32-bit pattern that encodes it
unpackf(e, b, o) ==
    IF e = "<" THEN unpackH(e, b, o) + W16 * unpackH(e, b, o + 2)
    ELSE W16 * unpackH(e, b, o) + unpackH(e, b, o + 2)

floats(e, b, o, n) == [j \in 1..n |-> unpackf(e, b, o + 4 * (j - 1))]

\* NortekReader.read_vec_checkdata (0x07)
read_vec_checkdata(s) ==
    Let(read_byts(s, 6), LAMBDA byts0 :
    Try(read(s, 6), LAMBDA s1 :
    Let(read_byts(s1, 3 * unpackH(s.endian, byts0, 2)), LAMBDA byts1 :
    Try(read(s1, 3 * unpackH(s.endian, byts0, 2)), LAMBDA s2 :
        checksum(s2, byts0 \o byts1)))))

\* NortekReader.read_vec_data (0x10): fields at index c, then c += 1
read_vec_data(s) ==
    LET c == s.c
        e == s.endian
    IN
    Let(IF ~HasCol(s, "data_vars", "vel")
        THEN [_init_data(s, vec_data) EXCEPT !._dtypes = Append(@, "vec_data")]
        ELSE s, LAMBDA s1 :
    Let(read_byts(s1, 20), LAMBDA byts :
    Try(read(s1, 20), LAMBDA s2 :
    Try(Assign([s2 EXCEPT !.wc = c], c,
            << <<"sys", "AnaIn2LSB", unpackB(byts, 0)>>,
               <<"sys", "Count", unpackB(byts, 1)>>,
               <<"data_vars", "PressureMSB", unpackB(byts, 2)>>,
               <<"sys", "AnaIn2MSB", unpackB(byts, 3)>>,
               <<"data_vars", "PressureLSW", unpackH(e, byts, 4)>>,
               <<"sys", "AnaIn1", unpackH(e, byts, 6)>>,
               <<"data_vars", "vel", <<unpackh(e, byts, 8),
                    unpackh(e, byts, 10), unpackh(e, byts, 12)>> >>,
               <<"data_vars", "amp", <<unpackB(byts, 14),
                    unpackB(byts, 15), unpackB(byts, 16)>> >>,
               <<"data_vars", "corr", <<unpackB(byts, 17),
                    unpackB(byts, 18), unpackB(byts, 19)>> >> >>, 1), LAMBDA s3 :
    Try(checksum(s3, byts), LAMBDA s4 :
        [s4 EXCEPT !.c = @ + 1])))))

\* NortekReader.read_vec_sysdata (0x11): fields at index c, c unchanged
read_vec_sysdata(s) ==
    LET c == s.c
        e == s.endian
        burst == SubSeq(s._lastread, 1, 2) = <<"vec_checkdata", "vec_hdr">>
    IN
    Try(IF ~burst THEN s
        ELSE IF c >= Len(s.burst_start) THEN Raise(s, "IndexError")
        ELSE [s EXCEPT !.burst_start[c + 1] = TRUE], LAMBDA s0 :
    Let(IF ~HasCol(s0, "coords", "time")
        THEN [_init_data(s0, vec_sysdata) EXCEPT !._dtypes = Append(@, "vec_sysdata")]
        ELSE s0, LAMBDA s1 :
    Let(read_byts(s1, 24), LAMBDA byts :
    Try(read(s1, 24), LAMBDA s2 :
        IF ~ClockValid(SubSeq(byts, 3, 8)) THEN Raise(s2, "ValueError")
        ELSE
    Try(Assign([s2 EXCEPT !.wc = c], c,
            << <<"coords", "time", rd_time(SubSeq(byts, 3, 8))>>,
               <<"sys", "batt", unpackH(e, byts, 8)>>,
               <<"data_vars", "c_sound", unpackH(e, byts, 10)>>,
               <<"data_vars", "heading", unpackh(e, byts, 12)>>,
               <<"data_vars", "pitch", unpackh(e, byts, 14)>>,
               <<"data_vars", "roll", unpackh(e, byts, 16)>>,
               <<"data_vars", "temp", unpackH(e, byts, 18)>>,
               <<"sys", "error", unpackB(byts, 20)>>,
               <<"sys", "status", unpackB(byts, 21)>>,
               <<"sys", "AnaIn", unpackH(e, byts, 22)>> >>, 1), LAMBDA s3 :
        checksum(s3, byts))))))

\* NortekReader.read_vec_hdr (0x12): nothing is kept of the record
read_vec_hdr(s) ==
    Let(read_byts(s, 38), LAMBDA byts :
    Try(read(s, 38), LAMBDA s1 :
        IF ~ClockValid(SubSeq(byts, 3, 8)) THEN Raise(s1, "ValueError")
        ELSE IF \E i \in {14} \cup (18..38) : byts[i] >= 128
             THEN Raise(s1, "UnicodeDecodeError")
        ELSE checksum(s1, byts)))

\* the columns read_microstrain creates at the first record, by sub-type
imu_columns(ahrsid) ==
    CASE ahrsid = 195 -> << <<"accel", 3>>, <<"angrt", 3>>, <<"orientmat", 9>> >>
      [] ahrsid = 204 -> << <<"accel", 3>>, <<"angrt", 3>>, <<"mag", 3>>,
                            <<"orientmat", 9>> >>
      [] ahrsid = 210 -> << <<"accel", 3>>, <<"angrt", 3>>, <<"mag", 3>> >>
      [] ahrsid = 211 -> << <<"angrt", 3>>, <<"accel", 3>>, <<"mag", 3>> >>
      [] OTHER -> << >>

\* inertial columns made one entry longer than the other columns
imu_create_long(s, cols, i) ==
    [s EXCEPT !.data["data_vars"].v =
        [nm \in DOMAIN @ \cup {cols[j][1] : j \in i..Len(cols)} |->
            IF \E j \in i..Len(cols) : cols[j][1] = nm
            THEN _empty_array(s.n_samp_guess + 1, 3)
            ELSE @[nm]]]

RECURSIVE imu_create(_, _, _)
imu_create(s, cols, i) ==
    IF i > Len(cols) THEN s
    ELSE imu_create([s EXCEPT !.data["data_vars"].v =
                        Upd(@, cols[i][1], _empty_array(s.n_samp_guess, cols[i][2]))],
                    cols, i + 1)

\* an entry step that decrements the index only right after a system-data record
microstrain_entry_after_sysdata(s) ==
    IF s._lastread[1] = "vec_sysdata" THEN [s EXCEPT !.c = @ - 1] ELSE s

\* the first statement of read_microstrain: warn at index 0, else self.c -= 1
microstrain_entry(s) ==
    IF s.c = 0 THEN s ELSE [s EXCEPT !.c = @ - 1]

\* the flag is left as it is
has_imu_kept(s) == s

\* dat['attrs']['has_imu'] = 1, once the four bytes in front of the payload
\* of an inertial record are read
has_imu(s) == [s EXCEPT !.data["attrs"].v = Upd(@, "has_imu", 1)]

\* NortekReader.read_microstrain (0x71)
read_microstrain(s) ==
    LET e == s.endian IN
    Let(microstrain_entry(s), LAMBDA sa :
    Let(read_byts(sa, 4), LAMBDA byts0 :
    Try(read(sa, 4), LAMBDA sb :
    Let(unpackB(byts0, 3), LAMBDA ahrsid :
    Let(has_imu([sb EXCEPT
            !.wc = sa.c,
            !.n_warn = IF sb._ahrsid # None /\ sb._ahrsid # ahrsid THEN @ + 1 ELSE @,
            !._ahrsid = IF ahrsid \in {195, 204, 210, 211} THEN ahrsid ELSE @]),
        LAMBDA sc :
    Let(IF HasCol(sc, "data_vars", "accel") THEN sc
        ELSE IF imu_columns(ahrsid) = << >>
             THEN [sc EXCEPT !._dtypes = Append(@, "microstrain")]
        ELSE [imu_create(sc, imu_columns(ahrsid), 1) EXCEPT
                !._dtypes = Append(@, "microstrain"),
                !._orient_dnames =
                    IF ahrsid = 210 THEN <<"accel", "angrt", "mag", "orientmat">>
                    ELSE [i \in 1..Len(imu_columns(ahrsid)) |->
                            imu_columns(ahrsid)[i][1]],
                !.data["units"].v =
                    IF ahrsid = 195 THEN Upd(Upd(@, "accel", "m/s^2"), "angrt", "rad/s")
                    ELSE Upd(Upd(Upd(@, "accel", "m/s^2"), "angrt", "rad/s"),
                             "mag", "gauss")], LAMBDA sd :
        IF ahrsid \notin {195, 204, 211}
        THEN [seek_cur(sd, 0 - 2) EXCEPT !.ret = 10]
        ELSE
    Let(read_byts(sd, ImuLen(ahrsid)), LAMBDA byts :
    Try(read(sd, ImuLen(ahrsid)), LAMBDA se :
    Try(Assign(se, sa.c,
            CASE ahrsid = 195 ->
                    << <<"data_vars", "angrt", floats(e, byts, 0, 3)>>,
                       <<"data_vars", "accel", floats(e, byts, 12, 3)>>,
                       <<"data_vars", "orientmat", floats(e, byts, 24, 9)>> >>
              [] ahrsid = 204 ->
                    << <<"data_vars", "accel", floats(e, byts, 0, 3)>>,
                       <<"data_vars", "angrt", floats(e, byts, 12, 3)>>,
                       <<"data_vars", "mag", floats(e, byts, 24, 3)>>,
                       <<"data_vars", "orientmat", floats(e, byts, 36, 9)>> >>
              [] OTHER ->
                    << <<"data_vars", "angrt", floats(e, byts, 0, 3)>>,
                       <<"data_vars", "accel", floats(e, byts, 12, 3)>>,
                       <<"data_vars", "mag", floats(e, byts, 24, 3)>> >>, 1), LAMBDA sf :
    Try(checksum(sf, byts0 \o byts), LAMBDA sg :
        [sg EXCEPT !.c = @ + 1]))))))))))

\* NortekReader.read_awac_profile (0x20): fields at index c, then c += 1
read_awac_profile(s) ==
    LET e == s.endian
        nbins == s.config["NBins"]
        c == s.c
    IN
    Let(IF ~HasCol(s, "data_vars", "temp")
        THEN [_init_data(s, awac_profile(nbins)) EXCEPT
                !._dtypes = Append(@, "awac_profile")]
        ELSE s, LAMBDA s1 :
    Let(read_byts(s1, ProfLen(nbins)), LAMBDA byts :
    Try(read(s1, ProfLen(nbins)), LAMBDA s2 :
        IF ~ClockValid(SubSeq(byts, 3, 8)) THEN Raise(s2, "ValueError")
        ELSE
    Try(Assign([s2 EXCEPT !.wc = c], c,
            << <<"coords", "time", rd_time(SubSeq(byts, 3, 8))>>,
               <<"sys", "Error", unpackH(e, byts, 8)>>,
               <<"sys", "AnaIn1", unpackH(e, byts, 10)>>,
               <<"sys", "batt", unpackH(e, byts, 12)>>,
               <<"data_vars", "c_sound", unpackH(e, byts, 14)>>,
               <<"data_vars", "heading", unpackH(e, byts, 16)>>,
               <<"data_vars", "pitch", unpackH(e, byts, 18)>>,
               <<"data_vars", "roll", unpackH(e, byts, 20)>>,
               <<"sys", "status", unpackB(byts, 23)>>,
               <<"data_vars", "temp", unpackH(e, byts, 26)>>,
               <<"data_vars", "pressure",
                    65536 * unpackB(byts, 22) + unpackH(e, byts, 24)>>,
               <<"data_vars", "vel",
                    [j \in 1..(3 * nbins) |-> unpackh(e, byts, 116 + 2 * (j - 1))]>>,
               <<"data_vars", "amp",
                    [j \in 1..(3 * nbins) |-> unpackB(byts, 116 + 6 * nbins + j - 1)]>>
            >>, 1), LAMBDA s3 :
    Try(checksum(s3, byts), LAMBDA s4 :
        [s4 EXCEPT !.c = @ + 1])))))

-----------------------------------------------------------------------------
(* Opening a file *)

\* the data dict init_ADV and init_AWAC build, and the keys they move out of config
init_data(s, model, type) ==
    [s EXCEPT
        !.data = [g \in {"data_vars", "coords", "attrs", "units", "sys"} |->
            CASE g = "attrs" ->
                    Dict(Upd(Upd(Upd(Upd(Upd(EmptyDict,
                        "inst_model", model), "inst_type", type),
                        "freq", s.config["freq"]),
                        "SerialNum", s.config["serialNum"]),
                        "Comments", s.config["Comments"]))
              [] g = "data_vars" ->
                    Dict(Upd(EmptyDict, "beam2inst_orientmat",
                        NdArray(s.config["beam2inst_orientmat"])))
              [] OTHER -> Dict(EmptyDict)],
        !.config = Pop(Pop(Pop(@, "serialNum"), "beam2inst_orientmat"), "Comments")]

\* int(filesize / dlta + 1) for dlta = num / den
samp_guess(num, den) == (filesize * den) \div num + 1

\* NortekReader.init_ADV: capacity from the spacing of system-data records,
\* times the integer part of fs = 512 / AvgInterval
init_ADV(s) ==
    Try(code_spacing(init_data(s, "Vector", "ADV"), 17), LAMBDA s1 :
        IF s1.config["AvgInterval"] = 0 \/ s1.ret[1] = 0
        THEN Raise(s1, "ZeroDivisionError")
        ELSE [s1 EXCEPT
                !.config = Upd(@, "fs", <<512, s1.config["AvgInterval"]>>),
                !.n_samp_guess = samp_guess(s1.ret[1], s1.ret[2])
                                    * (512 \div s1.config["AvgInterval"])])

\* NortekReader.init_AWAC: capacity from the spacing of profile records
init_AWAC(s) ==
    Try(code_spacing(init_data(s, "AWAC", "ADCP"), 32), LAMBDA s1 :
        IF s1.ret[1] = 0 \/ s1.config["AvgInterval"] = 0
        THEN Raise(s1, "ZeroDivisionError")
        ELSE [s1 EXCEPT
                !.n_samp_guess = samp_guess(s1.ret[1], s1.ret[2]),
                !.config = Upd(@, "fs", <<1, s1.config["AvgInterval"]>>)])

\* a serial number compared as it is spelled
upper_none(ch) == ch

\* str.upper on one ASCII character
upper(ch) == IF ch >= 97 /\ ch <= 122 THEN ch - 32 ELSE ch
prefix(serialNum) == [i \in 1..3 |-> upper(serialNum[i])]
WPR == <<87, 80, 82>>
VEC == <<86, 69, 67>>

coord_sys_of(axes) ==
    CASE axes = "XYZ" -> "inst" [] axes = "ENU" -> "earth" [] OTHER -> "beam"

\* the class attribute NortekReader._lastread
NortekReader_lastread == <<"None", "None", "None", "None", "None">>

\* a constructor that takes the first entry of a (start, stop) tuple as the cap
NewReader_start_as_cap(a) ==
    [pos |-> 0, c |-> 0, endian |-> "?", do_checksum |-> a.do_checksum,
     _npings |-> IF Len(a.nens) = 0 THEN None ELSE a.nens[1],
     _n_start |-> IF Len(a.nens) = 2 THEN a.nens[1] ELSE 0,
     n_samp_guess |-> None, _dtypes |-> << >>,
     _lastread |-> <<"None", "None", "None", "None", "None">>,
     _thisid_bytes |-> << >>, _ahrsid |-> None, _orient_dnames |-> << >>,
     config |-> [k \in {} |-> 0], _inst |-> "None", burst_start |-> << >>,
     data |-> [k \in {} |-> 0], err |-> "none", ret |-> None,
     handles |-> 1, cls_lastread |-> NortekReader_lastread, own_lastread |-> FALSE,
     wc |-> None, n_resync |-> 0, n_warn |-> 0]

\* the object as the first statements of __init__ leave it; nens is <<>> for
\* None, <<n>> for an int and <<start, stop>> for a tuple; handles counts the
\* open file handles of the session, the first opened here.  The object has
\* no _lastread of its own (own_lastread): the field _lastread is what the
\* attribute lookup self._lastread gives, the class attribute cls_lastread
\* until readnext binds one to the object.
NewReader(a) ==
    [pos |-> 0, c |-> 0, endian |-> "?", do_checksum |-> a.do_checksum,
     _npings |-> IF Len(a.nens) = 0 THEN None
                 ELSE IF Len(a.nens) = 1 THEN a.nens[1] ELSE a.nens[2],
     _n_start |-> IF Len(a.nens) = 2 THEN a.nens[1] ELSE 0,
     n_samp_guess |-> None, _dtypes |-> << >>,
     _lastread |-> NortekReader_lastread,
     _thisid_bytes |-> << >>, _ahrsid |-> None, _orient_dnames |-> << >>,
     config |-> EmptyDict, _inst |-> "None", burst_start |-> << >>,
     data |-> EmptyDict, err |-> "none", ret |-> None,
     handles |-> 1, cls_lastread |-> NortekReader_lastread, own_lastread |-> FALSE,
     wc |-> None, n_resync |-> 0, n_warn |-> 0]

\* the byte-order probe of __init__: the second test reads four more bytes
probe_endian(s) ==
    LET s1 == read(s, 4)
        b1 == read_byts(s, 4)
    IN IF ~Ok(s1) THEN s1
       ELSE IF <<unpackH("<", b1, 0), unpackH("<", b1, 2)>> = <<1445, 24>>
            THEN [s1 EXCEPT !.endian = "<"]
       ELSE LET s2 == read(s1, 4)
                b2 == read_byts(s1, 4)
            IN IF ~Ok(s2) THEN s2
               ELSE IF <<unpackH(">", b2, 0), unpackH(">", b2, 2)>> = <<1445, 24>>
                    THEN [s2 EXCEPT !.endian = ">"]
               ELSE Raise(s2, "WrongFileType")

\* read_id() == code, then the configuration reader, else raise Exception
header_record(s, code) ==
    Try(read_id(s), LAMBDA s1 :
        IF s1.ret # code THEN Raise(s1, "Exception")
        ELSE CASE code = 5 -> read_hw_cfg(s1)
               [] code = 4 -> read_head_cfg(s1)
               [] OTHER -> read_user_cfg(s1))

\* a capacity of exactly the cap
capacity_is_cap(s) == IF s._npings # None THEN s._npings ELSE s.n_samp_guess

\* the capacity __init__ settles on: the cap plus one when a cap is given
capacity(s) == IF s._npings # None THEN s._npings + 1 ELSE s.n_samp_guess

\* NortekReader.__init__
__init__(a) ==
    Try(probe_endian(NewReader(a)), LAMBDA s0 :
    Try(header_record([s0 EXCEPT !.pos = 0], 5), LAMBDA s1 :
    Try(header_record(s1, 4), LAMBDA s2 :
    Try(header_record(s2, 0), LAMBDA s3 :
    Try(IF prefix(s3.config["serialNum"]) = WPR
        THEN init_AWAC([s3 EXCEPT !._inst = "AWAC"])
        ELSE IF prefix(s3.config["serialNum"]) = VEC
        THEN init_ADV([s3 EXCEPT !._inst = "ADV"])
        ELSE Raise(s3, "KeyError"), LAMBDA s4 :
    Let(capacity(s4), LAMBDA n :
    Let(Upd(Upd(Upd(s4.data["attrs"].v,
            "fs", s4.config["fs"]),
            "coord_sys", coord_sys_of(s4.config["coord_sys_axes"])),
            "has_imu", 0), LAMBDA props :
        IF n < 0 THEN Raise(s4, "ValueError")
        ELSE [s4 EXCEPT
                !.n_samp_guess = n,
                !.handles = (@ - 1) + 1,
                !.pos = s3.pos,
                !.burst_start = [i \in 1..n |-> FALSE],
                !.data["attrs"].v =
                    IF s4.config["NBurst"] > 0
                    THEN Upd(Upd(props, "DutyCycle_NBurst", s4.config["NBurst"]),
                             "DutyCycle_NCycle",
                             <<s4.config["MeasInterval"] * s4.config["fs"][1],
                               s4.config["fs"][2]>>)
                    ELSE props,
                !.ret = None])))))))

-----------------------------------------------------------------------------
(* The main loop *)

fun_map ==
    [id \in {0, 4, 5, 7, 16, 17, 18, 113, 32} |->
        CASE id = 0 -> "read_user_cfg" [] id = 4 -> "read_head_cfg"
          [] id = 5 -> "read_hw_cfg" [] id = 7 -> "read_vec_checkdata"
          [] id = 16 -> "read_vec_data" [] id = 17 -> "read_vec_sysdata"
          [] id = 18 -> "read_vec_hdr" [] id = 113 -> "read_microstrain"
          [] OTHER -> "read_awac_profile"]

\* func_name[5:]
short_name(func_name) ==
    CASE func_name = "read_user_cfg" -> "user_cfg"
      [] func_name = "read_head_cfg" -> "head_cfg"
      [] func_name = "read_hw_cfg" -> "hw_cfg"
      [] func_name = "read_vec_checkdata" -> "vec_checkdata"
      [] func_name = "read_vec_data" -> "vec_data"
      [] func_name = "read_vec_sysdata" -> "vec_sysdata"
      [] func_name = "read_vec_hdr" -> "vec_hdr"
      [] func_name = "read_microstrain" -> "microstrain"
      [] OTHER -> "awac_profile"

\* a dispatch that keeps the configuration parsed at open
call_frozen_config(s, func_name) ==
    Let(CASE func_name = "read_user_cfg" -> read_user_cfg(s)
          [] func_name = "read_head_cfg" -> read_head_cfg(s)
          [] func_name = "read_hw_cfg" -> read_hw_cfg(s)
          [] func_name = "read_vec_checkdata" -> read_vec_checkdata(s)
          [] func_name = "read_vec_data" -> read_vec_data(s)
          [] func_name = "read_vec_sysdata" -> read_vec_sysdata(s)
          [] func_name = "read_vec_hdr" -> read_vec_hdr(s)
          [] func_name = "read_microstrain" -> read_microstrain(s)
          [] OTHER -> read_awac_profile(s),
        LAMBDA s1 : [s1 EXCEPT !.config = s.config])

call(s, func_name) ==
    CASE func_name = "read_user_cfg" -> read_user_cfg(s)
      [] func_name = "read_head_cfg" -> read_head_cfg(s)
      [] func_name = "read_hw_cfg" -> read_hw_cfg(s)
      [] func_name = "read_vec_checkdata" -> read_vec_checkdata(s)
      [] func_name = "read_vec_data" -> read_vec_data(s)
      [] func_name = "read_vec_sysdata" -> read_vec_sysdata(s)
      [] func_name = "read_vec_hdr" -> read_vec_hdr(s)
      [] func_name = "read_microstrain" -> read_microstrain(s)
      [] OTHER -> read_awac_profile(s)

\* a readnext that keeps the history in the list of the class, in place
readnext_class_history(s) ==
    Try(read_id(s), LAMBDA s1 :
        IF s1.ret \in DOMAIN fun_map
        THEN Try(call([s1 EXCEPT !.ret = None], fun_map[s1.ret]), LAMBDA s2 :
                [s2 EXCEPT !._lastread =
                    <<short_name(fun_map[s1.ret])>> \o SubSeq(@, 1, Len(@) - 1),
                           !.cls_lastread =
                    <<short_name(fun_map[s1.ret])>> \o SubSeq(s2._lastread, 1, 4)])
        ELSE [seek_cur(s1, 0 - 2) EXCEPT !.ret = 10])

\* a readnext that steps over the id pair of an unknown code and goes on
readnext_skip_pair(s) ==
    Try(read_id(s), LAMBDA s1 :
        IF s1.ret \in DOMAIN fun_map
        THEN Try(call([s1 EXCEPT !.ret = None], fun_map[s1.ret]), LAMBDA s2 :
                [s2 EXCEPT !.own_lastread = TRUE,
                           !._lastread =
                    <<short_name(fun_map[s1.ret])>> \o SubSeq(@, 1, Len(@) - 1)])
        ELSE [s1 EXCEPT !.ret = None])

\* a readnext that keeps the history oldest first
readnext_oldest_first(s) ==
    Try(read_id(s), LAMBDA s1 :
        IF s1.ret \in DOMAIN fun_map
        THEN Try(call([s1 EXCEPT !.ret = None], fun_map[s1.ret]), LAMBDA s2 :
                [s2 EXCEPT !.own_lastread = TRUE,
                           !._lastread =
                    SubSeq(@, 2, Len(@)) \o <<short_name(fun_map[s1.ret])>>])
        ELSE [seek_cur(s1, 0 - 2) EXCEPT !.ret = 10])

\* NortekReader.readnext: dispatch on the type code; an unknown code seeks
\* back over the id pair and returns 10.  The history is a new list bound to
\* the object: [func_name[5:]] + self._lastread[:-1]
readnext(s) ==
    Try(read_id(s), LAMBDA s1 :
        IF s1.ret \in DOMAIN fun_map
        THEN Try(call([s1 EXCEPT !.ret = None], fun_map[s1.ret]), LAMBDA s2 :
                [s2 EXCEPT !.own_lastread = TRUE,
                           !._lastread =
                    <<short_name(fun_map[s1.ret])>> \o SubSeq(@, 1, Len(@) - 1)])
        ELSE [seek_cur(s1, 0 - 2) EXCEPT !.ret = 10])

\* dat[..., slice(0, stop)]
Slice(a, stop) ==
    IF stop >= 0 THEN SubSeq(a, 1, Min(stop, Len(a)))
    ELSE SubSeq(a, 1, Max(Len(a) + stop, 0))

\* crop_data: crop the entries of obj that are arrays with n_lastdim entries
\* along the last axis; every other entry is left as it is
crop_data(obj, stop, n_lastdim) ==
    [nm \in DOMAIN obj |->
        IF obj[nm].t = "ndarray" /\ Len(obj[nm].v) = n_lastdim
        THEN NdArray(Slice(obj[nm].v, stop))
        ELSE obj[nm]]

\* a loop body whose EOFError is not caught
loop_body_noexcept(s) ==
    Let(readnext(s), LAMBDA s1 :
    Let(IF Ok(s1) /\ s1.ret = 10 THEN findnext(s1, TRUE) ELSE s1, LAMBDA s2 :
        IF ~Ok(s2) THEN [s |-> s2, exit |-> "raise"]
        ELSE IF s2._npings # None /\ s2.c >= s2._npings
        THEN IF \E i \in 1..Len(s2._dtypes) : s2._dtypes[i] = "microstrain"
             THEN Let(readnext(s2), LAMBDA s3 :
                      IF s3.err = "Hang" THEN [s |-> s3, exit |-> "raise"]
                      ELSE [s |-> [s3 EXCEPT !.err = "none"], exit |-> "break"])
             ELSE [s |-> s2, exit |-> "break"]
        ELSE [s |-> s2, exit |-> "continue"]))

\* one pass through the body of the while loop of readfile (nlines is None);
\* exit tells how the pass ends: "continue", "break", "eof" or "raise"
loop_body(s) ==
    Let(readnext(s), LAMBDA s1 :
    Let(IF Ok(s1) /\ s1.ret = 10 THEN findnext(s1, TRUE) ELSE s1, LAMBDA s2 :
        IF s2.err = "EOFError" THEN [s |-> [s2 EXCEPT !.err = "none"], exit |-> "eof"]
        ELSE IF ~Ok(s2) THEN [s |-> s2, exit |-> "raise"]
        ELSE IF s2._npings # None /\ s2.c >= s2._npings
        THEN IF \E i \in 1..Len(s2._dtypes) : s2._dtypes[i] = "microstrain"
             THEN Let(readnext(s2), LAMBDA s3 :
                      IF s3.err = "Hang" THEN [s |-> s3, exit |-> "raise"]
                      ELSE [s |-> [s3 EXCEPT !.err = "none"], exit |-> "break"])
             ELSE [s |-> s2, exit |-> "break"]
        ELSE [s |-> s2, exit |-> "continue"]))

\* the statements of readfile after the loop
after_loop(s) ==
    [s EXCEPT !.c = @ - 1,
              !.data = crop_data(@, s.c - 1, s.n_samp_guess)]

-----------------------------------------------------------------------------
(* The files and arguments the sessions are run on *)

MaxPairs == 3      \* (system-data, velocity-data) pairs in a file
MaxCap == 2        \* largest record cap given as nens

Rec(k, a) == [k |-> k, a |-> a, cs |-> "ok"]
BadRec(k, a) == [k |-> k, a |-> a, cs |-> "bad"]

StdHdr == <<Rec("hw", 0), Rec("head", 0), Rec("user", 0)>>

StdInput ==
    [e |-> "<", serial |-> VEC, avg |-> 512, coord |-> 1, nbins |-> 0,
     nburst |-> 0, hdr |-> StdHdr, recs |-> << >>, trunc |-> 0, junk |-> 0]

Pairs(n) == [i \in 1..(2 * n) |-> IF i % 2 = 1 THEN Rec("sys", 0) ELSE Rec("vel", 0)]

SeqsUpTo(S, n) == UNION {[1..m -> S] : m \in 0..n}

AdvKinds ==
    {Rec(k, 0) : k \in {"vel", "sys", "vhdr", "chk", "unk", "hw", "head", "user"}}
        \cup {Rec("imu", a) : a \in {195, 204, 211, 210, 99}}
        \cup {Rec("junk", a) : a \in 1..MaxGarbage}
        \cup {BadRec("vel", 0)}

MixedKinds ==
    {Rec(k, 0) : k \in {"vel", "sys", "vhdr", "chk", "unk"}}
        \cup {Rec("imu", 204), Rec("imu", 99), Rec("junk", 1), Rec("junk", 2)}

HasJunk(recs) == \E i \in 1..Len(recs) : recs[i].k = "junk"

\* N well-formed pairs
FamPairs == {[StdInput EXCEPT !.recs = Pairs(n)] : n \in 1..MaxPairs}

\* a system-data record, then up to MaxRecs records or garbage
FamMixed ==
    {[StdInput EXCEPT !.recs = <<Rec("sys", 0)>> \o m, !.junk = j] :
        m \in SeqsUpTo(MixedKinds, MaxRecs), j \in {0}}
    \cup {[StdInput EXCEPT !.recs = <<Rec("sys", 0)>> \o m, !.junk = j] :
        m \in {x \in SeqsUpTo(MixedKinds, MaxRecs) : HasJunk(x)}, j \in {SyncByte}}

\* one record or garbage of any kind between two velocity records
FamSingle ==
    {[StdInput EXCEPT !.recs = <<Rec("sys", 0), Rec("vel", 0), r, Rec("vel", 0)>>,
                      !.junk = j] : r \in AdvKinds, j \in {0, 16}}

\* files cut short in their last record
FamTrunc ==
    {[StdInput EXCEPT !.recs = <<Rec("sys", 0), Rec("vel", 0), r>>, !.trunc = t] :
        r \in AdvKinds, t \in 1..MaxTrunc}

\* files that end in or right after the header
FamHeader ==
    {[StdInput EXCEPT !.hdr = SubSeq(StdHdr, 1, n), !.trunc = t] :
        n \in 0..3, t \in 0..MaxTrunc}
    \cup {[StdInput EXCEPT !.hdr = <<Rec("hw", 0)>>, !.trunc = 48 - t] : t \in 0..8}
    \cup {[StdInput EXCEPT !.recs = <<r>>] : r \in AdvKinds}
    \cup {[StdInput EXCEPT !.hdr = <<BadRec("hw", 0), Rec("head", 0), Rec("user", 0)>>,
                           !.recs = Pairs(1)]}

\* profiler files
FamAwac ==
    {[StdInput EXCEPT !.serial = WPR, !.nbins = nb, !.recs = m] :
        nb \in {1, 2},
        m \in SeqsUpTo({Rec("prof", 0), Rec("unk", 0), Rec("junk", 2)}, MaxRecs)}

\* headers with another record at one of the three positions
FamBadHeader ==
    {[StdInput EXCEPT !.hdr = [StdHdr EXCEPT ![i] = r], !.recs = Pairs(1)] :
        i \in 1..3,
        r \in {Rec(k, 0) : k \in {"hw", "head", "user", "vel", "sys", "unk"}}}
        \ {[StdInput EXCEPT !.recs = Pairs(1)]}

\* files written big-endian: every 16-bit word of every record, and in the
\* second variant the first word (sync byte and type code) too
FamBigEndian ==
    {[StdInput EXCEPT !.e = ">", !.hdr = [StdHdr EXCEPT ![1] = Rec("hw", a)],
                      !.recs = Pairs(n)] : a \in {0, 1}, n \in 1..MaxPairs}

\* files that put the magic words in front of a file, at offset 0 or 4
FamProbe ==
    {[StdInput EXCEPT !.e = e, !.hdr = pre \o StdHdr, !.recs = Pairs(1)] :
        e \in {"<", ">"},
        pre \in {<<Rec("magic", 1)>>, <<Rec("junk", 4), Rec("magic", 1)>>,
                 <<Rec("junk", 4), Rec("magic", 0)>>, <<Rec("magic", 0)>>}}

\* two inertial records, of the same or of different sub-types
FamImu ==
    {[StdInput EXCEPT !.recs = <<Rec("sys", 0), Rec("vel", 0), Rec("imu", a), Rec("imu", b)>>] :
        a \in {195, 204, 211}, b \in {195, 204, 211}}

\* a user-configuration record with other settings between two pairs
FamReconfig ==
    {[StdInput EXCEPT !.recs = Pairs(1) \o <<Rec("user", a)>> \o Pairs(1)] : a \in {1, 3}}

\* serial numbers in other spellings and of other instruments, on a file of
\* velocity pairs and on a file of profiles
FamSerial ==
    {[StdInput EXCEPT !.serial = sr, !.nbins = 1, !.recs = m] :
        sr \in {<<118, 101, 99>>, <<86, 101, 67>>, <<119, 112, 114>>, <<87, 112, 82>>,
                <<65, 81, 68>>, <<86, 69, 88>>},
        m \in {Pairs(1), <<Rec("prof", 0), Rec("prof", 0)>>}}

\* two inertial records of an unknown sub-type with one record between
\* them, the first one ending the checksum scan it starts at the second
FamUnknownImu ==
    {[StdInput EXCEPT !.recs = <<Rec("sys", 0), Rec("imu99t", 0), m, Rec("imu", 99)>>] :
        m \in {Rec("vel", 0), Rec("sys", 0), Rec("imu", 99)}}

Inputs ==
    FamPairs \cup FamMixed \cup FamSingle \cup FamTrunc \cup FamHeader \cup FamAwac
        \cup FamBadHeader \cup FamBigEndian \cup FamProbe \cup FamImu
        \cup FamReconfig \cup FamSerial \cup FamUnknownImu
        \* other averaging intervals: 2 samples per second, one every 2 seconds
        \cup {[StdInput EXCEPT !.avg = a, !.recs = Pairs(n)] :
                  a \in {256, 1024}, n \in 1..MaxPairs}
        \* a file that ends inside the first bytes of an inertial record
        \* (50 bytes)
        \cup {[StdInput EXCEPT !.recs = <<Rec("sys", 0), Rec("vel", 0), Rec("imu", 211)>>,
                               !.trunc = 50 - t] : t \in 2..6}
        \* a data-header and a check-data record in either order, twice the
        \* same, or with something in between, in front of a second pair
        \cup {[StdInput EXCEPT !.recs = Pairs(1) \o <<a>> \o m \o <<b>> \o Pairs(1)] :
                  a \in {Rec("vhdr", 0), Rec("chk", 0)},
                  b \in {Rec("vhdr", 0), Rec("chk", 0)},
                  m \in {<< >>, <<Rec("unk", 0)>>, <<Rec("vel", 0)>>, <<Rec("junk", 2)>>}}

\* no time column under conversion
NoColumn == [t |-> << >>, fs |-> 1, nburst |-> 0, time |-> << >>, done |-> FALSE]

Nens == {<< >>} \cup {<<n>> : n \in 1..MaxCap} \cup {<<1, MaxCap>>}

Args == [do_checksum : BOOLEAN, nens : Nens]

-----------------------------------------------------------------------------
(* The session: read_nortek opens the file and runs readfile *)

\* what is recorded of the latest step: the record kind dispatched to, the
\* offset before the pass (p0) and after its id pair (pid), the sample index
\* before the pass (c0), the record read before it (prev), the reader as the
\* first readnext of the pass returns it (offset p1, sample index c1, handler
\* index wc, error err1), whether readnext or the scan after an unknown code
\* met a short read, how the pass ends and the sample index at that point
NoStep == [kind |-> "none", p0 |-> 0, pid |-> 0, c0 |-> 0, prev |-> "None",
           p1 |-> 0, c1 |-> 0, wc |-> None, err1 |-> "none", short |-> FALSE,
           exit |-> "none", c_exit |-> 0, n |-> 0]

Init ==
    /\ input \in Inputs
    /\ f = RenderFile(input)
    /\ args \in Args
    /\ rdr = [NewReader(args) EXCEPT !.handles = 0]
    /\ pc = "new"
    /\ last = NoStep
    /\ cls = NortekReader_lastread
    /\ rdr2 = [NewReader(args) EXCEPT !.handles = 0]
    /\ pc2 = "off"
    /\ sci = NoColumn

\* with NortekReader(filename, do_checksum, nens) as rdr
Open ==
    /\ pc = "new"
    /\ LET s == __init__(args) IN
        /\ rdr' = [s EXCEPT !.n_resync = 0, !.wc = None]
        /\ pc' = IF Ok(s) THEN "open" ELSE "raised"
    /\ last' = [NoStep EXCEPT !.kind = "__init__"]
    /\ UNCHANGED <<f, input, args, cls, rdr2, pc2, sci>>

\* the reader s as a method finds it when the class attribute is c: an
\* object without a _lastread of its own reads the one of the class
Bind(s, c) ==
    [s EXCEPT !.cls_lastread = c,
              !._lastread = IF s.own_lastread THEN @ ELSE c]

\* what the next pass of the loop dispatches to
KindAt(s) ==
    Let(read_id(s), LAMBDA s1 :
        IF s1.err = "EOFError" THEN "eof"
        ELSE IF s1.ret \in DOMAIN fun_map THEN short_name(fun_map[s1.ret])
        ELSE "unknown")

\* the new state after a pass: r is what loop_body returns, r1 the reader
\* as the first readnext of the pass returns it, rid as read_id returns it
\* the reader after a pass that loop_body ended as r: a pass that leaves the
\* loop goes on to the statements after it
leave_pass(r) ==
    [(IF r.exit \in {"break", "eof"} THEN after_loop(r.s) ELSE r.s) EXCEPT !.ret = None]

\* NortekReader.__exit__: self.close()
__exit__(s) == [s EXCEPT !.handles = @ - 1]

\* the reader after a pass: when readfile returns or raises, control leaves
\* the with block of read_nortek and __exit__ runs
leave_with(r) ==
    IF r.exit = "continue" THEN leave_pass(r) ELSE __exit__(leave_pass(r))

end_pass(kind, r, r1, rid) ==
    /\ rdr' = leave_with(r)
    /\ pc' = CASE r.exit = "continue" -> "open"
               [] r.exit = "raise" -> "raised"
               [] OTHER -> "done"
    /\ last' = [kind |-> kind, p0 |-> rdr.pos, pid |-> rid.pos,
                c0 |-> rdr.c, prev |-> rdr._lastread[1],
                p1 |-> r1.pos, c1 |-> r1.c, wc |-> r1.wc, err1 |-> r1.err,
                short |-> (r1.err = "EOFError"
                           \/ (Ok(r1) /\ r1.ret = 10
                                  /\ findnext(r1, TRUE).err = "EOFError")),
                exit |-> r.exit, c_exit |-> r.s.c, n |-> last.n + 1]

\* one pass of the while loop of readfile that dispatches to kind; the pass
\* that leaves the loop also runs the statements after it
pass(kind) ==
    /\ KindAt(rdr) = kind
    /\ end_pass(kind, loop_body(Bind(rdr, cls)),
                readnext([Bind(rdr, cls) EXCEPT !.wc = None]), read_id(rdr))
    /\ cls' = rdr'.cls_lastread
    /\ UNCHANGED <<f, input, args, rdr2, pc2, sci>>

pass_user_cfg == pc = "open" /\ pass("user_cfg")
pass_head_cfg == pc = "open" /\ pass("head_cfg")
pass_hw_cfg == pc = "open" /\ pass("hw_cfg")
pass_vec_checkdata == pc = "open" /\ pass("vec_checkdata")
pass_vec_data == pc = "open" /\ pass("vec_data")
pass_vec_sysdata == pc = "open" /\ pass("vec_sysdata")
pass_vec_hdr == pc = "open" /\ pass("vec_hdr")
pass_microstrain == pc = "open" /\ pass("microstrain")
pass_awac_profile == pc = "open" /\ pass("awac_profile")
pass_unknown == pc = "open" /\ pass("unknown")
pass_eof == pc = "open" /\ pass("eof")

Next ==
    \/ Open
    \/ pass_user_cfg
    \/ pass_head_cfg
    \/ pass_hw_cfg
    \/ pass_vec_checkdata
    \/ pass_vec_data
    \/ pass_vec_sysdata
    \/ pass_vec_hdr
    \/ pass_microstrain
    \/ pass_awac_profile
    \/ pass_unknown
    \/ pass_eof

Spec == Init /\ [][Next]_vars

-----------------------------------------------------------------------------
(* Two sessions on the same file with the same arguments, their steps      *)
(* interleaved in any order                                                *)

\* a burst: data header, check data, then a pair
FamBurst ==
    {[StdInput EXCEPT !.recs = <<Rec("vhdr", 0), Rec("chk", 0)>> \o Pairs(n)] :
        n \in 1..2}

Inputs2 == FamPairs \cup FamBurst

Init2 ==
    /\ input \in Inputs2
    /\ f = RenderFile(input)
    /\ args \in Args
    /\ rdr = [NewReader(args) EXCEPT !.handles = 0]
    /\ pc = "new"
    /\ last = NoStep
    /\ cls = NortekReader_lastread
    /\ rdr2 = [NewReader(args) EXCEPT !.handles = 0]
    /\ pc2 = "new"
    /\ sci = NoColumn

\* a pass of the loop of the first session, whatever it dispatches to
pass1 ==
    /\ pc = "open"
    /\ \E kind \in {short_name(fun_map[id]) : id \in DOMAIN fun_map} \cup {"unknown", "eof"} :
          pass(kind)

\* the second session is opened
Open2 ==
    /\ pc2 = "new"
    /\ LET s == __init__(args) IN
        /\ rdr2' = [s EXCEPT !.n_resync = 0, !.wc = None]
        /\ pc2' = IF Ok(s) THEN "open" ELSE "raised"
    /\ UNCHANGED <<f, input, args, rdr, pc, last, cls, sci>>

\* a pass of the loop of the second session
pass2 ==
    /\ pc2 = "open"
    /\ LET r == loop_body(Bind(rdr2, cls)) IN
        /\ rdr2' = leave_with(r)
        /\ pc2' = CASE r.exit = "continue" -> "open"
                    [] r.exit = "raise" -> "raised"
                    [] OTHER -> "done"
    /\ cls' = rdr2'.cls_lastread
    /\ UNCHANGED <<f, input, args, rdr, pc, last, sci>>

Next2 ==
    \/ Open
    \/ pass1
    \/ Open2
    \/ pass2

TwoSessions == Init2 /\ [][Next2]_vars

-----------------------------------------------------------------------------
\* NortekReader.dat2sci: the conversion routines it runs, in order, one
\* 'sci_' + nm for every entry nm of _dtypes
dat2sci(s) == [i \in 1..Len(s._dtypes) |-> <<"sci_", s._dtypes[i]>>]

-----------------------------------------------------------------------------
(* The conversion of the time column, sci_vec_sysdata.  A column entry is   *)
(* NaN or a whole number of seconds before the conversion and a fraction    *)
(* <<numerator, denominator>> after it, <<0, 0>> for NaN.                   *)

MaxSeg == 5        \* samples in the time column

\* all positions of real timestamps, the first included
inds_keep_first(seg) == {j - 1 : j \in {j \in 1..Len(seg) : seg[j] # NaN}}

\* np.nonzero(sysi)[0][1:]: the positions (from 0) of the real timestamps of
\* a segment, the first one skipped
inds(seg) ==
    LET nz == {j \in 1..Len(seg) : seg[j] # NaN}
    IN {j - 1 : j \in {j \in nz : \E i \in nz : i < j}}

\* np.poly1d(np.polyfit(X, seg[X], 1))(k): the least-squares line through
\* the entries of seg at the positions X, at position k
polyfit(X, seg, k) ==
    LET Sm(g(_)) ==
            LET F[i \in 0..Len(seg)] ==
                    IF i = 0 THEN 0
                    ELSE F[i - 1] + (IF (i - 1) \in X THEN g(i - 1) ELSE 0)
            IN F[Len(seg)]
        n == Cardinality(X)
        Sx == Sm(LAMBDA x : x)
        Sxx == Sm(LAMBDA x : x * x)
        Sy == Sm(LAMBDA x : seg[x + 1])
        Sxy == Sm(LAMBDA x : x * seg[x + 1])
    IN <<Sy * Sxx - Sx * Sxy + k * (n * Sxy - Sx * Sy), n * Sxx - Sx * Sx>>

\* slice(nb * nburst, (nb + 1) * nburst) on a column of n entries, as the
\* first and last index (from 1) of burst nb
iburst(n, nburst, nb) ==
    LET len == IF nburst = 0 THEN n ELSE nburst
    IN <<nb * len + 1, Min((nb + 1) * len, n)>>

\* the time column after the loop over the bursts of sci_vec_sysdata
sci_time(t, fs, nburst) ==
    LET n == Len(t)
        den == fs * 3600 * 24
        val(seg, k) ==
            LET I == inds(seg) IN
            IF Cardinality(I) >= 2 THEN polyfit(I, seg, k)
            ELSE IF Cardinality(I) = 1
            THEN LET a == CHOOSE a \in I : TRUE
                 IN <<(k - a) + seg[a + 1] * den, den>>
            ELSE IF seg[1] = NaN THEN <<0, 0>>
            ELSE <<seg[1] * den + k, den>>
    IN [i \in 1..n |->
          LET nb == (i - 1) \div (IF nburst = 0 THEN n ELSE nburst)
              ib == iburst(n, nburst, nb)
          IN val(SubSeq(t, ib[1], ib[2]), i - ib[1])]

\* time columns with real timestamps at some samples, one every dT seconds
\* of real time per sample, and NaN at the others
SciInputs ==
    {[t |-> [i \in 1..n |-> IF i \in A THEN T0 + dT * (i - 1) ELSE NaN],
      fs |-> fs, nburst |-> nburst, time |-> << >>, done |-> FALSE] :
        n \in 1..MaxSeg, A \in SUBSET (1..MaxSeg), T0 \in {3}, dT \in {1, 2},
        fs \in {1, 2}, nburst \in {0, 2, 3}}

InitSci ==
    /\ input = StdInput
    /\ f = RenderFile(input)
    /\ args = [do_checksum |-> FALSE, nens |-> << >>]
    /\ rdr = [NewReader(args) EXCEPT !.handles = 0]
    /\ pc = "done"
    /\ last = NoStep
    /\ cls = NortekReader_lastread
    /\ rdr2 = [NewReader(args) EXCEPT !.handles = 0]
    /\ pc2 = "off"
    /\ sci \in SciInputs

\* NortekReader.sci_vec_sysdata, the time column
sci_vec_sysdata ==
    /\ ~sci.done
    /\ sci' = [sci EXCEPT !.time = sci_time(sci.t, sci.fs, sci.nburst), !.done = TRUE]
    /\ UNCHANGED <<f, input, args, rdr, pc, last, cls, rdr2, pc2>>

SciTime == InitSci /\ [][sci_vec_sysdata]_vars

TypeOK ==
    /\ pc \in {"new", "open", "done", "raised"}
    /\ pc2 = "off"
    /\ rdr.err \in {"none", "EOFError", "TypeError", "WrongFileType", "Exception",
                    "KeyError", "IndexError", "ValueError", "ZeroDivisionError",
                    "UnicodeDecodeError", "CheckSumFailed", "Hang"}
    /\ (pc = "raised") = (rdr.err # "none")

-----------------------------------------------------------------------------
(* Properties of the decode *)

\* the per-sample columns the buffer holds
SampleColumns(s) ==
    {gn \in UNION {{<<g, nm>> : nm \in DOMAIN s.data[g].v} : g \in Groups} :
        gn[2] # "beam2inst_orientmat"}

\* is the trailing word of the record at offset p, with an n-byte payload,
\* the one the instrument computes for it?
StoredChecksumOK(p, n) ==
    unpackH(input.e, f, p + 2 + n) = DeviceChecksum(input.e, SubSeq(f, p + 1, p + 2 + n))

\* payload bytes of the fixed-size records
PayloadLen(kind) == IF kind = "vec_data" THEN 20 ELSE 24

\* C1: a file of N >= 1 well-formed (system-data, velocity-data) pairs that
\* ends cleanly, read without a cap, ends with exactly N samples in every
\* column of the buffer.
C1_ExactlyNSamples ==
    (pc = "done" /\ input \in FamPairs /\ args.nens = << >>)
        => \A gn \in SampleColumns(rdr) :
              Len(Col(rdr, gn[1], gn[2])) = Len(input.recs) \div 2

\* C2: when readfile has returned, every per-sample column of data_vars,
\* coords and sys is as long as the number of samples decoded.
C2_ColumnsCroppedToCount ==
    pc = "done"
        => \A gn \in SampleColumns(rdr) : Len(Col(rdr, gn[1], gn[2])) = last.c_exit

\* C3: with do_checksum set, a hardware-configuration record whose trailing
\* word is not the word-sum of its id pair and payload plus 46476 (mod 2^16)
\* makes the constructor fail with the checksum error.
C3_MismatchRaisesChecksumError ==
    (args.do_checksum /\ last.kind = "__init__" /\ Len(f) >= 48
        /\ SubSeq(f, 1, 2) = <<SyncByte, 5>> /\ ~StoredChecksumOK(0, 44))
        => (pc = "raised" /\ rdr.err = "CheckSumFailed")

\* C4: with do_checksum set, a file whose records all carry the right
\* trailing word is opened without an error.
C4_MatchingChecksumAccepted ==
    (args.do_checksum /\ last.kind = "__init__" /\ input \in FamPairs)
        => (pc = "open" /\ rdr.err = "none")

\* C5: without do_checksum, a velocity or system-data record whose payload
\* has been read and whose sample index is within the capacity of the
\* buffer is decoded without an error whatever its trailing word is
\* (or whether it is there at all), the offset ends exactly two bytes past
\* the payload, and the fields stored are the bytes of the file.
C5_ChecksumDisabledSkips ==
    (~args.do_checksum /\ last.kind \in {"vec_data", "vec_sysdata"} /\ last.wc # None
        /\ last.wc < rdr.n_samp_guess)
        => /\ last.err1 = "none"
           /\ last.p1 = last.pid + PayloadLen(last.kind) + 2
           /\ last.kind = "vec_data" =>
                Col(rdr, "data_vars", "vel")[last.wc + 1] =
                    <<unpackh(rdr.endian, f, last.pid + 8),
                      unpackh(rdr.endian, f, last.pid + 10),
                      unpackh(rdr.endian, f, last.pid + 12)>>
           /\ last.kind = "vec_sysdata" =>
                Col(rdr, "sys", "batt")[last.wc + 1] = unpackH(rdr.endian, f, last.pid + 8)

\* a velocity record with a wrong trailing word has been decoded with
\* do_checksum off
C5_Witness ==
    /\ ~args.do_checksum
    /\ last.kind = "vec_data"
    /\ last.wc # None
    /\ last.pid + 22 <= Len(f)
    /\ ~StoredChecksumOK(last.pid - 2, 20)
    /\ last.p1 = last.pid + 22
    /\ Col(rdr, "data_vars", "vel")[last.wc + 1][1] = unpackh(rdr.endian, f, last.pid + 8)

C7_GarbageRecovered ==
    (pc = "done" /\ ~args.do_checksum /\ args.nens = << >>
        /\ input \in FamSingle /\ input.recs[3].k = "junk")
        => /\ rdr.n_resync = 1
           /\ last.c_exit = 2
           /\ Col(rdr, "sys", "Count")[2] = 4
           /\ Col(rdr, "data_vars", "vel")[2] = <<4, 0, 0>>

\* C8 as stated: a pass over an unknown type code steps over the two bytes
\* of the id pair and goes on with the sample index and the columns unchanged.
C8_SkipsExactlyTwoBytes ==
    [][(pc = "open" /\ last'.kind = "unknown" /\ pc' = "open")
          => /\ rdr'.pos = last'.pid
             /\ rdr'.c = rdr.c
             /\ rdr'.data = rdr.data]_vars

\* the word indexes, counted from the id pair at offset p, at which the scan
\* for the next record stops: the word starts with the sync byte and the
\* word before it is the seed plus the sum of all words before that
ScanStops(p) ==
    {k \in 1..((Len(f) - p) \div 2 - 1) :
        /\ f[p + 2 * k + 1] = SyncByte
        /\ unpackH(rdr.endian, f, p + 2 * (k - 1))
              = (CsSeed + SumWords(rdr.endian, f, p, p + 2 * (k - 1))) % W16}

\* C8 amended: a pass over an unknown type code never raises and leaves the
\* columns unchanged; it seeks back to the id pair and scans forward in
\* 16-bit words for the first word that starts with the sync byte and follows
\* a word equal to the rolling checksum of the words before it.  The decode
\* goes on there, at least two words past the start of the id pair and with
\* the sample index unchanged; if there is no such word the loop ends.
C8_ScansToNextChecksum ==
    [][(pc = "open" /\ last'.kind = "unknown")
          => LET p == last'.pid - 2 IN
             /\ pc' # "raised"
             /\ rdr'.data = rdr.data
             /\ ScanStops(p) = {} => pc' = "done"
             /\ ScanStops(p) # {} =>
                  /\ pc' = "open"
                  /\ rdr'.c = rdr.c
                  /\ rdr'.pos >= p + 4
                  /\ (rdr'.pos - p) \div 2 \in ScanStops(p)
                  /\ (rdr'.pos - p) % 2 = 0
                  /\ \A k \in ScanStops(p) : rdr'.pos <= p + 2 * k]_vars

\* a complete unknown record has been passed and the decode goes on at the
\* record after it
C8_Witness ==
    /\ last.kind = "unknown"
    /\ pc = "open"
    /\ rdr.pos = last.p0 + 8
    /\ rdr.c = last.c0
    /\ rdr.c >= 1

\* C9: a short read in a pass of the main loop never reaches the caller as
\* an exception: the loop ends, the statements after it run, and every
\* column that was there before the pass keeps its entries.
C9_ShortReadEndsLoop ==
    [][pc = "open"
          => /\ rdr'.err # "EOFError"
             /\ last'.short =>
                  /\ pc' = "done"
                  /\ rdr'.err = "none"
                  /\ rdr'.c = last'.c_exit - 1
                  /\ \A gn \in SampleColumns(rdr) :
                        /\ HasCol(rdr', gn[1], gn[2])
                        /\ Col(rdr', gn[1], gn[2]) = Col(rdr, gn[1], gn[2])]_vars

\* a file cut inside a velocity record after a sample was decoded: the loop
\* has ended and the sample is in the buffer
C9_Witness ==
    /\ pc = "done"
    /\ last.short
    /\ last.kind = "vec_data"
    /\ last.exit = "eof"
    /\ last.c0 >= 1
    /\ Col(rdr, "sys", "Count")[1] # NaN

\* C10: a file that ends inside the byte-order probe or the three
\* configuration records makes the constructor fail with WrongFileType.
C10_HeaderShortReadIsWrongFileType ==
    (last.kind = "__init__" /\ ~args.do_checksum /\ input.hdr = StdHdr
        /\ Len(f) < Len(RenderRecs(StdInput, StdHdr, 1)) - 2)
        => (pc = "raised" /\ rdr.err = "WrongFileType")

\* C11: a file whose first three records are not hardware, head and user
\* configuration in this order is rejected by the constructor with
\* WrongFileType, before any column exists (checksums disabled).
C11_HeaderOrderIsFormatError ==
    (last.kind = "__init__" /\ ~args.do_checksum /\ input \in FamBadHeader)
        => (pc = "raised" /\ rdr.err = "WrongFileType" /\ rdr.data = EmptyDict)

\* are the words at offset 0 of the file the magic pair 1445, 24 in byte order e?
MagicAt0(e) == unpackH(e, f, 0) = 1445 /\ unpackH(e, f, 2) = 24

\* C12: the constructor tests the four bytes at offset 0 as little-endian,
\* then the same bytes as big-endian, takes the first byte order in which
\* they are the magic pair, and fails with WrongFileType if neither is.
C12_ProbeTestsOffsetZero ==
    (last.kind = "__init__" /\ Len(f) >= 8)
        => IF MagicAt0("<") THEN rdr.endian = "<"
           ELSE IF MagicAt0(">") THEN rdr.endian = ">"
           ELSE pc = "raised" /\ rdr.err = "WrongFileType"

\* C13: a file of well-formed pairs written big-endian is accepted with the
\* byte order detected, and decodes to the samples its little-endian
\* encoding decodes to (checksums disabled, no cap).
C13_BothByteOrdersDecodeAlike ==
    (input \in FamBigEndian /\ ~args.do_checksum /\ args.nens = << >>
        /\ pc \in {"done", "raised"})
        => /\ pc = "done"
           /\ rdr.endian = ">"
           /\ last.c_exit = Len(input.recs) \div 2
           /\ \A j \in 1..(Len(input.recs) \div 2) :
                 Col(rdr, "data_vars", "vel")[j] = <<2 * j, 0, 0>>

\* C14: with a cap n the loop ends when the sample index reaches n, after
\* at most one further record, with the sample index equal to n.
C14_CapStopsAtIndexN ==
    (pc = "done" /\ last.exit = "break") => last.c_exit = rdr._npings

\* the reader with its start offset forgotten
NoStart(s) == [s EXCEPT !._n_start = 0]

\* the arguments with a (start, stop) window replaced by the cap stop
CapOnly(a) == [a EXCEPT !.nens = IF Len(@) = 2 THEN <<@[2]>> ELSE @]

C16_HandlesClosedOnEveryExit ==
    pc \in {"done", "raised"} => rdr.handles = 0

\* C17: two sessions on the same file with the same cap and checksum flag,
\* stepped in any order, leave the class attribute _lastread as it was, and
\* when both have ended they have ended alike: same exception if any, same
\* sample index, same buffer, same burst marks, same configuration.
C17_SessionsDoNotInterfere ==
    /\ cls = NortekReader_lastread
    /\ (pc \in {"done", "raised"} /\ pc2 \in {"done", "raised"})
          => /\ pc2 = pc
             /\ rdr2.err = rdr.err
             /\ rdr2.c = rdr.c
             /\ rdr2.data = rdr.data
             /\ rdr2.burst_start = rdr.burst_start
             /\ rdr2.config = rdr.config

\* both sessions have decoded a burst to its end, each with its own history
C17_Witness ==
    /\ pc = "done"
    /\ pc2 = "done"
    /\ rdr.c >= 1
    /\ rdr.burst_start[1]
    /\ rdr.own_lastread
    /\ rdr2._lastread[2] = "vec_sysdata"

\* C18: a file with coordinate selector XYZ and no bins, three system-data
\* records interleaved with three velocity records and no inertial record,
\* decodes to 3 samples in every column of the data and system groups, with
\* coordinate system 'inst' and no inertial data flagged.
C18_ThreePairsXYZ ==
    (pc = "done" /\ input = [StdInput EXCEPT !.recs = Pairs(3)]
        /\ ~args.do_checksum /\ args.nens = << >>)
        => /\ \A gn \in SampleColumns(rdr) :
                 gn[1] \in {"data_vars", "sys"} => Len(Col(rdr, gn[1], gn[2])) = 3
           /\ rdr.data["attrs"].v["coord_sys"] = "inst"
           /\ rdr.data["attrs"].v["has_imu"] = 0

\* C19: an inertial record whose sub-type (195, 204 or 211) differs from the
\* sub-type of the inertial records before it only draws a warning: the
\* pass raises nothing and the loop goes on.
C19_SubtypeChangeOnlyWarns ==
    [][(pc = "open" /\ last'.kind = "microstrain"
          /\ rdr._ahrsid \in {195, 204, 211}
          /\ rdr'._ahrsid \in {195, 204, 211} \ {rdr._ahrsid})
          => /\ rdr'.n_warn = rdr.n_warn + 1
             /\ rdr'.err = "none"
             /\ pc' = "open"]_vars

\* C20: once the constructor has returned, no pass of the main loop changes
\* a field of the configuration other than the sampling rate fs.
C20_ConfigFrozenAfterOpen ==
    [][pc = "open" => Pop(rdr'.config, "fs") = Pop(rdr.config, "fs")]_vars

\* C20, amended: a pass that decodes one record leaves the configuration as
\* it was unless the record is a user, head or hardware configuration
\* record; such a record met in the main loop is decoded as at open and
\* overwrites the fields it carries: the coordinate selector and bin count
\* of a user record are those of the record, and a hardware record puts
\* back the serial number that init_ADV / init_AWAC moved out.
C20_OnlyConfigRecordsChangeConfig ==
    [][pc = "open" =>
        /\ (last'.kind \notin {"user_cfg", "head_cfg", "hw_cfg"}
              /\ (last'.exit # "break"
                    \/ \A i \in 1..Len(rdr'._dtypes) : rdr'._dtypes[i] # "microstrain"))
              => rdr'.config = rdr.config
        /\ (last'.kind = "user_cfg" /\ pc' = "open")
              => /\ rdr'.config["coord_sys_axes"]
                        = coord_names[unpackH(rdr.endian, f, last'.pid + 30) + 1]
                 /\ rdr'.config["NBins"] = unpackH(rdr.endian, f, last'.pid + 32)
        /\ (last'.kind = "hw_cfg" /\ pc' = "open")
              => /\ "serialNum" \in DOMAIN rdr'.config
                 /\ rdr'.config["serialNum"] = SubSeq(f, last'.pid + 3, last'.pid + 10)]_vars

\* a user record with selector BEAM and 3 bins met after a pair of a file
\* opened with selector XYZ and no bins: the configuration now has the
\* settings of the record, the attributes those computed at open
C20_Witness ==
    /\ pc = "open"
    /\ last.kind = "user_cfg"
    /\ last.c0 = 1
    /\ input.coord = 1
    /\ rdr.config["coord_sys_axes"] = "BEAM"
    /\ rdr.config["NBins"] = 3
    /\ rdr.data["attrs"].v["coord_sys"] = "inst"

\* C21: a pass of the main loop never ends with an exception other than the
\* checksum error, and that one only with checksums enabled: a sync-byte
\* mismatch, an unknown type code, an unknown or changed inertial sub-type
\* and a short read are all absorbed by the loop.
C21_MainLoopRaisesOnlyChecksumError ==
    (pc = "raised" /\ last.kind # "__init__")
        => (rdr.err = "CheckSumFailed" /\ args.do_checksum)

\* C22: once the three header records are read, a serial number whose first
\* three characters spell WPR in any case selects the AWAC, one that spells
\* VEC the ADV, and any other makes __init__ fail with no buffer allocated:
\* no data dict, no capacity, no burst_start.
C22_SerialPrefixSelectsInstrument ==
    LET Spellings(w) ==
            {p \in [1..3 -> 0..255] : \A i \in 1..3 : p[i] \in {w[i], w[i] + 32}}
        p == SubSeq(input.serial, 1, 3)
    IN (pc # "new" /\ Has(rdr.config, "vel_scale")) =>
        /\ p \in Spellings(<<87, 80, 82>>) => rdr._inst = "AWAC"
        /\ p \in Spellings(<<86, 69, 67>>) => rdr._inst = "ADV"
        /\ p \notin Spellings(<<87, 80, 82>>) \cup Spellings(<<86, 69, 67>>)
              => /\ pc = "raised" /\ last.kind = "__init__"
                 /\ rdr._inst = "None"
                 /\ rdr.data = EmptyDict
                 /\ rdr.n_samp_guess = None
                 /\ rdr.burst_start = << >>

C22_Witness ==
    /\ pc = "raised" /\ rdr.err = "KeyError" /\ Has(rdr.config, "vel_scale")
    /\ SubSeq(input.serial, 1, 3) = <<86, 69, 88>>

\* C23: in every burst segment that holds real timestamps, one every dT
\* seconds per sample and NaN elsewhere, the converted time column is
\* strictly increasing and equals the real timestamp, within 1e-6, at every
\* index that held one.
C23_AnchorsKeptAndIncreasing ==
    sci.done =>
        \A nb \in 0..(Len(sci.t) \div (IF sci.nburst = 0 THEN Len(sci.t) ELSE sci.nburst)) :
            LET ib == iburst(Len(sci.t), sci.nburst, nb)
                R == {i \in ib[1]..ib[2] : sci.t[i] # NaN}
            IN R # {} =>
                /\ \A i \in R :
                      LET y == sci.time[i]
                          d == y[1] - sci.t[i] * y[2]
                      IN y[2] > 0 /\ d <= y[2] \div 1000000 /\ 0 - d <= y[2] \div 1000000
                /\ \A i \in ib[1]..(ib[2] - 1) :
                      /\ sci.time[i][2] > 0
                      /\ sci.time[i + 1][2] = sci.time[i][2]
                      /\ sci.time[i][1] < sci.time[i + 1][1]

C24_ResyncAtNearestSyncByte ==
    [][(pc = "open" /\ rdr.pos + 2 <= Len(f) /\ f[rdr.pos + 1] # SyncByte)
          => LET p == rdr.pos
                 Q == {q \in (p + 1)..(Len(f) - 2) : f[q + 1] = SyncByte}
             IN Q # {} => \E q \in Q : /\ \A r \in Q : q <= r
                                       /\ last'.pid = q + 2]_vars

\* C26: dat2sci runs the conversion routine of each record type once: when
\* the loop has ended no routine is in its list twice, whatever records the
\* file held.
C26_EachConversionOnce ==
    pc = "done"
        => \A i \in 1..Len(dat2sci(rdr)) : \A j \in 1..Len(dat2sci(rdr)) :
              dat2sci(rdr)[i] = dat2sci(rdr)[j] => i = j

C28_CapacityAtLeastOne ==
    (pc = "open" /\ last.kind = "__init__")
        => /\ rdr.n_samp_guess >= 1
           /\ args.nens # << >> => rdr.n_samp_guess = args.nens[Len(args.nens)] + 1

\* C29: on a file of n >= 2 (system-data, velocity-data) pairs, fewer than
\* iternum, code_spacing('0x11') called after the header returns the distance
\* between the first and the last system-data record divided by the n - 1
\* records located after the first: the 52 bytes of a pair.
C29_SpacingOfLocatedRecords ==
    (pc = "open" /\ last.kind = "__init__" /\ input \in FamPairs
        /\ Len(input.recs) >= 4)
        => LET r == code_spacing(rdr, 17)
               n == Len(input.recs) \div 2
           IN /\ Ok(r)
              /\ r.ret[1] * (n - 1) = (52 * (n - 1)) * r.ret[2]

C31_SampleIndexNeverNegative ==
    pc \in {"open", "done"} => rdr.c >= 0

\* C32: read_microstrain leaves the sample index as it found it, on every
\* path by which it ends: a decoded record, an unrecognized sub-type, a short
\* read.
C32_MicrostrainKeepsIndex ==
    last.kind = "microstrain" => last.c1 = last.c0

\* C33: only a velocity-data or profile-data record changes the sample
\* index: a decoded one writes its fields at the old index and adds one, and
\* a pass over any other record leaves the index as it was, a system-data
\* record writing its fields at the index the next velocity record will use.
C33_OnlyVelocityAndProfileCount ==
    [][pc = "open"
          => /\ last'.c1 # last'.c0 => last'.kind \in {"vec_data", "awac_profile"}
             /\ (last'.kind \in {"vec_data", "awac_profile"} /\ last'.err1 = "none")
                   => (last'.c1 = last'.c0 + 1 /\ last'.wc = last'.c0)
             /\ (last'.kind = "vec_sysdata" /\ last'.err1 = "none")
                   => (last'.c1 = last'.c0 /\ last'.wc = last'.c0)]_vars

\* C34: readfile terminates.  Every pass of the main loop either ends the
\* loop or leaves the offset strictly greater than it found it, also when it
\* resynchronizes or recovers from an unknown type code or inertial sub-type,
\* and a pass begun with fewer than two bytes left ends the loop: the bytes
\* left in the file bound the number of passes.
C34_EveryPassAdvancesOrEnds ==
    [][pc = "open"
          => /\ pc' # "open" \/ rdr'.pos > rdr.pos
             /\ rdr.pos + 2 > Len(f) => pc' # "open"]_vars

\* a pass recovered from an unknown type code and the loop went on further on
C34_Witness ==
    /\ pc = "open" /\ last.kind = "unknown" /\ last.exit = "continue"
    /\ rdr.pos >= last.p0 + 4

\* C35: when read_id has resynchronized, the bytes kept for the checksum of
\* the record it found are that record's own sync byte and type code, so the
\* per-record checksum is taken over the record's id pair and payload.
C35_ResyncKeepsOwnIdBytes ==
    (pc = "open" /\ last.exit = "continue" /\ last.kind # "eof"
        /\ last.pid > last.p0 + 2)
        => rdr._thisid_bytes = SubSeq(f, last.pid - 1, last.pid)

\* C36 (as stated): the has-inertial-data flag is 0 when the reader is
\* constructed, and a pass of the main loop leaves it at 1 exactly when it
\* was 1 before or the pass dispatched an inertial record; it never goes
\* back to 0.
C36_FlagSetOnDispatch ==
    [][/\ pc' = "open" /\ pc # "open" => rdr'.data["attrs"].v["has_imu"] = 0
       /\ pc = "open"
            => (rdr'.data["attrs"].v["has_imu"] = 1
                  <=> (rdr.data["attrs"].v["has_imu"] = 1
                         \/ last'.kind = "microstrain"))]_vars

\* C36 (amended): the flag is 0 when the reader is constructed; a pass of the
\* main loop leaves it at 1 exactly when it was 1 before or the pass
\* dispatched an inertial record whose four bytes in front of the payload
\* (size word, sub-type) were read; an inertial record the file ends inside
\* of before those bytes leaves the flag as it was.
C36_FlagSetOncePrefixRead ==
    [][/\ pc' = "open" /\ pc # "open" => rdr'.data["attrs"].v["has_imu"] = 0
       /\ pc = "open"
            => (rdr'.data["attrs"].v["has_imu"] = 1
                  <=> (rdr.data["attrs"].v["has_imu"] = 1
                         \/ (last'.kind = "microstrain"
                               /\ last'.pid + 4 <= Len(f))))]_vars

C36_Witness ==
    /\ pc = "done" /\ rdr.data["attrs"].v["has_imu"] = 1
    /\ \E i \in 1..Len(rdr._lastread) : rdr._lastread[i] = "microstrain"

\* C37: while the main loop runs, every per-sample column present has as many
\* entries along its last dimension as n_samp_guess, whichever record type or
\* inertial sub-type created it; a pass that stays in the loop keeps every
\* column it found and changes no entry of it other than at the sample index
\* one of its handlers wrote at.
C37_ColumnsKeepLengthAndContent ==
    [][pc' = "open"
          => /\ \A gn \in SampleColumns(rdr') :
                    Len(Col(rdr', gn[1], gn[2])) = rdr'.n_samp_guess
             /\ pc = "open"
                  => \A gn \in SampleColumns(rdr) :
                        /\ gn \in SampleColumns(rdr')
                        /\ \A i \in 1..Len(Col(rdr, gn[1], gn[2])) :
                              LET old == Col(rdr, gn[1], gn[2])[i]
                                  new == Col(rdr', gn[1], gn[2])[i]
                              IN  new # old => i - 1 \in {last'.wc, rdr'.wc}]_vars

\* inertial columns next to velocity columns, after a second record of a
\* type found its columns made
C37_Witness ==
    /\ pc = "open" /\ rdr.n_samp_guess >= 2
    /\ HasCol(rdr, "data_vars", "accel") /\ HasCol(rdr, "data_vars", "vel")
    /\ Col(rdr, "data_vars", "vel")[1] # _empty_array(1, 3).v[1]
    /\ Col(rdr, "data_vars", "vel")[2] # _empty_array(1, 3).v[1]

\* C38: the history _lastread always has 5 entries; a pass that stays in the
\* main loop puts the name of the record it dispatched in front of the
\* history and drops the oldest entry, and a pass that dispatched nothing
\* (unknown type code) leaves the history as it was; only a system-data
\* record changes burst_start, and it sets the entry at the sample index
\* exactly when the two records dispatched before it were a data-header and
\* then a check-data record.
C38_BurstStartByHistory ==
    [][pc = "open"
          => /\ Len(rdr'._lastread) = 5
             /\ pc' = "open"
                  => /\ rdr'._lastread =
                           IF last'.kind \in {"unknown", "eof"} THEN rdr._lastread
                           ELSE <<last'.kind>> \o SubSeq(rdr._lastread, 1, 4)
                     /\ rdr'.burst_start =
                           IF /\ last'.kind = "vec_sysdata"
                              /\ rdr._lastread[1] = "vec_checkdata"
                              /\ rdr._lastread[2] = "vec_hdr"
                           THEN [rdr.burst_start EXCEPT ![rdr.c + 1] = TRUE]
                           ELSE rdr.burst_start]_vars

\* a burst marked at a sample index after the first, the system-data record
\* since pushed back in the history by a velocity-data record
C38_Witness ==
    /\ pc = "open"
    /\ \E i \in 2..Len(rdr.burst_start) : rdr.burst_start[i]
    /\ SubSeq(rdr._lastread, 1, 4) = <<"vec_data", "vec_sysdata", "vec_checkdata", "vec_hdr">>
====
